---- MODULE Spec2Model ----
(***************************************************************************)
(* checks_urls_response_code.py: the concurrent URL checker.               *)
(*                                                                         *)
(* check_urls reads the input rows, submits one fetch_status task per row  *)
(* to a ThreadPoolExecutor(max_workers=MAX_WORKERS), collects the futures  *)
(* with as_completed into the list `results`, leaves the pool and writes   *)
(* the list to the output file.  fetch_status issues a HEAD request and,   *)
(* when its status is >= 400, a GET request.                               *)
(*                                                                         *)
(* The network is a mock transport: for every URL and method, the set of   *)
(* answers a request may get (a status code, a requests.RequestException,  *)
(* or another Exception).                                                  *)
(***************************************************************************)
EXTENDS Integers, Sequences, FiniteSets

VARIABLES
    records,    \* rows: the input records, in input order        (l.126-133)
    transport,  \* the network: URL -> method -> possible answers
    pc,         \* position of the main thread in check_urls
    submitted,  \* number of executor.submit calls made           (l.141)
    threads,    \* worker threads the executor has started        (l.140)
    task,       \* per record: the state of its fetch_status task and future
    unyielded,  \* finished futures not yet yielded, in finishing order
    early,      \* as_completed: futures already finished when it was called
    waiter,     \* as_completed: futures finished since, in finishing order
    results,    \* the list `results`                             (l.137)
    yielded,    \* task ids in the order as_completed yielded them
    written,    \* rows handed to writer.writerows, one entry per call (l.164)
    run,        \* which run of check_urls on this input this is
    first,      \* the rows the first run wrote
    printed,    \* the lines printed at l.151, in order
    infile      \* the header and the rows of the input CSV   (l.114-133)

vars == <<records, transport, pc, submitted, threads, task, unyielded,
          early, waiter, results, yielded, written, run, first, printed,
          infile>>

----------------------------------------------------------------------------
(* Bounds of the model *)

\* Longest input (number of rows with a URL).
MaxRecords == 3

\* Longest input checked against the wide range of status codes.
MaxProbeRecords == 1

\* Longest input run twice against a transport with fixed answers.
MaxStaticRecords == 2

\* Longest input file read from its raw rows.
MaxRawRows == 2

\* Concurrent worker threads.  The script sets 50; the model runs the same
\* executor with a ceiling small enough that MaxRecords exceeds it.
MAX_WORKERS == 2

----------------------------------------------------------------------------
(* Data *)

\* An input row as built at l.133.
InputRecord(u, l, s) == [URL |-> u, Langs |-> l, Status |-> s]

\* Two rows with the same URL and different tags, and a row with another URL.
RecordPool ==
    { InputRecord("u1", "en", ""),
      InputRecord("u1", "", "x"),
      InputRecord("u2", "en", "") }

\* The rows of a batch: the two that share a URL (an input may repeat a row).
BatchPool == { r \in RecordPool : r.URL = "u1" }

\* The rows of an input that is run twice: one per URL.
StaticPool == { r \in RecordPool : r.Langs = "en" }

URLs == { r.URL : r \in RecordPool }

\* What one request can end with: r.status_code = code, or an exception.
StatusResp(c) == [kind |-> "status", code |-> c]
RaiseResp(e)  == [kind |-> e, code |-> 0]

\* Status codes the transport of a batch answers with.
BatchCodes == {200, 404}

\* Status codes the transport of a single probe answers with.
ProbeCodes == {100, 200, 399, 400, 405, 599, 600}

\* requests.RequestException (what l.63 catches) and any other Exception.
Exceptions == {"RequestException", "Exception"}

ResponsesOver(codes, excs) ==
    { StatusResp(c) : c \in codes } \cup { RaiseResp(e) : e \in excs }

\* In a batch a HEAD ends with 200, with 404 or with an exception that
\* fetch_status does not catch, and a GET with 200 (servers that refuse HEAD
\* and serve GET).  A single probe's requests end with any status or
\* exception.
BatchHeadResponses == ResponsesOver(BatchCodes, {"Exception"})
BatchGetResponses == ResponsesOver({200}, {})
ProbeResponses == ResponsesOver(ProbeCodes, Exceptions)
StaticResponses == ResponsesOver(BatchCodes, {"RequestException"})

\* A transport that may answer any HEAD with any of `heads` and any GET with
\* any of `gets`.
AnyTransport(heads, gets) == [u \in URLs |-> [HEAD |-> heads, GET |-> gets]]

\* The transports that answer the same way every time: per URL one answer
\* to HEAD and one to GET.
StaticTransports ==
    [URLs -> { [HEAD |-> {h}, GET |-> {g}] :
                  h \in StaticResponses, g \in StaticResponses }]

\* The value of a future / a ResponseCode: an int, the string "ERROR", or
\* (for a future only) a stored exception.
IntCode(c) == [kind |-> "int", code |-> c]
ERROR      == [kind |-> "ERROR", code |-> 0]
RAISED     == [kind |-> "raised", code |-> 0]
NoValue    == [kind |-> "none", code |-> 0]
NoResp     == [kind |-> "none", code |-> 0]

SeqsUpTo(S, n) == UNION { [1..k -> S] : k \in 0..n }

Range(s) == { s[i] : i \in DOMAIN s }

\* The multiset of the elements of a sequence.
BagOfSeq(s) == [x \in Range(s) |-> Cardinality({ i \in DOMAIN s : s[i] = x })]

N == Len(records)
Tasks == 1..N

----------------------------------------------------------------------------
(* Reading the input, l.114-133 *)

\* The keys of header_map: the normalised names of the columns (l.116-118).
Columns == {"URL", "Langs", "Status"}

\* A field that a row shorter than the header leaves out: csv.DictReader
\* fills it with None.
None == "<None>"

\* What a getcol call that raises leaves in place of a value.
AttributeError == "<AttributeError>"

\* str.strip on the cells of the model.
Strip(s) ==
    CASE s = " u1 " -> "u1"
      [] s = " en " -> "en"
      [] s = " "    -> ""
      [] OTHER      -> s

\* The rows of a file with a header of three columns: the URL cell is a URL,
\* a URL with blanks around it, or blank; a row of one field leaves out
\* Langs and Status, a row of two leaves out Status.
RawPool ==
    { InputRecord(u, ls[1], ls[2]) :
          u \in {"u1", " u1 ", " "},
          ls \in { <<"en", "x">>, <<" en ", "">>,
                   <<"en", None>>, <<None, None>> } }

\* The rows of a file whose header has the URL column only.
UrlOnlyPool == { r \in RawPool : r.Langs = None /\ r.Status = None }

RawFiles ==
    { [header |-> Columns, rows |-> rs] : rs \in SeqsUpTo(RawPool, MaxRawRows) }
    \cup
    { [header |-> {"URL"}, rows |-> rs] : rs \in SeqsUpTo(UrlOnlyPool, MaxRawRows) }

\* l.121-123: getcol(row, key_norm) with the default "": the default when
\* the header has no such column, else row.get(orig, default).strip(), which
\* raises AttributeError on None.
getcol(header, row, key) ==
    IF key \in header
    THEN IF row[key] = None THEN AttributeError ELSE Strip(row[key])
    ELSE ""

\* l.127-133, one row: skipped when the URL is empty, else a record, unless a
\* getcol call raises.
ReadRow(header, row) ==
    LET url    == getcol(header, row, "URL")
        langs  == getcol(header, row, "Langs")
        status == getcol(header, row, "Status") IN
    IF url = AttributeError THEN [raised |-> TRUE, rows |-> <<>>]
    ELSE IF url = "" THEN [raised |-> FALSE, rows |-> <<>>]
    ELSE IF langs = AttributeError \/ status = AttributeError
    THEN [raised |-> TRUE, rows |-> <<>>]
    ELSE [raised |-> FALSE, rows |-> <<InputRecord(url, langs, status)>>]

\* l.127-133: the loop over the rows from the k-th on, with `rows` so far;
\* it stops at the first row that raises.
RECURSIVE ReadFrom(_, _, _)
ReadFrom(file, k, rows) ==
    IF k > Len(file.rows)
    THEN [raised |-> FALSE, rows |-> rows]
    ELSE LET r == ReadRow(file.header, file.rows[k]) IN
         IF r.raised
         THEN [raised |-> TRUE, rows |-> rows]
         ELSE ReadFrom(file, k + 1, rows \o r.rows)

----------------------------------------------------------------------------
(* fetch_status, l.47-64 *)

\* Variant of l.60 that also treats redirects as failures: >= 300.
Escalates_from300(code) == code >= 300

\* Variant of l.60 with a strict comparison: > 400.
Escalates_above400(code) == code > 400

\* l.60: the HEAD status that makes fetch_status issue a GET.
Escalates(code) == code >= 400

\* l.63-64: what the except clause makes of an exception raised by a request.
OnException(kind) ==
    IF kind = "RequestException" THEN ERROR ELSE RAISED

\* Variant of l.59-64 that falls back to GET when the HEAD request fails.
AfterHead_getOnFailure(resp) ==
    IF resp.kind = "status"
    THEN IF Escalates(resp.code)
         THEN [st |-> "get", value |-> NoValue]
         ELSE [st |-> "finished", value |-> IntCode(resp.code)]
    ELSE [st |-> "get", value |-> NoValue]

\* l.59-62: HEAD has answered `resp`; the next stage and the value so far.
AfterHead(resp) ==
    IF resp.kind = "status"
    THEN IF Escalates(resp.code)
         THEN [st |-> "get", value |-> NoValue]
         ELSE [st |-> "finished", value |-> IntCode(resp.code)]
    ELSE [st |-> "finished", value |-> OnException(resp.kind)]

\* Variant of l.61 with the GET outside the try block: its exception
\* leaves fetch_status.
AfterGet_uncaught(resp) ==
    IF resp.kind = "status"
    THEN [st |-> "finished", value |-> IntCode(resp.code)]
    ELSE [st |-> "finished", value |-> RAISED]

\* Variant of l.61-64 that issues the GET again when it fails.
AfterGet_retry(resp) ==
    IF resp.kind = "status"
    THEN [st |-> "finished", value |-> IntCode(resp.code)]
    ELSE [st |-> "get", value |-> NoValue]

\* l.61-62: GET has answered `resp`.
AfterGet(resp) ==
    IF resp.kind = "status"
    THEN [st |-> "finished", value |-> IntCode(resp.code)]
    ELSE [st |-> "finished", value |-> OnException(resp.kind)]

----------------------------------------------------------------------------
(* color_for_status and emoji_for_status, l.67-93 *)

\* Variant of l.74 with the red range open above: `code >= 400`.
color_for_status_noUpperLimit(code) ==
    IF code.kind = "int" /\ 200 <= code.code /\ code.code < 300
    THEN [color |-> "GREEN", text |-> code]
    ELSE IF code.kind = "int" /\ 300 <= code.code /\ code.code < 400
    THEN [color |-> "YELLOW", text |-> code]
    ELSE IF code.kind = "int" /\ 400 <= code.code
    THEN [color |-> "RED", text |-> code]
    ELSE [color |-> "LIGHTBLACK_EX", text |-> ERROR]

\* l.67-78: the colour and the text of the coloured string; the text is
\* str(code) in the three ranges and "ERROR" otherwise.
color_for_status(code) ==
    IF code.kind = "int" /\ 200 <= code.code /\ code.code < 300
    THEN [color |-> "GREEN", text |-> code]
    ELSE IF code.kind = "int" /\ 300 <= code.code /\ code.code < 400
    THEN [color |-> "YELLOW", text |-> code]
    ELSE IF code.kind = "int" /\ 400 <= code.code /\ code.code < 600
    THEN [color |-> "RED", text |-> code]
    ELSE [color |-> "LIGHTBLACK_EX", text |-> ERROR]

\* Variant of l.86 with the green range closed above: `200 <= code <= 300`.
emoji_for_status_upTo300(code) ==
    IF code.kind = "int" /\ 200 <= code.code /\ code.code <= 300
    THEN "GREEN_SQUARE"
    ELSE IF code.kind = "int" /\ 300 <= code.code /\ code.code < 400
    THEN "YELLOW_SQUARE"
    ELSE IF code.kind = "int" /\ 400 <= code.code /\ code.code < 600
    THEN "RED_SQUARE"
    ELSE "BLACK_CIRCLE"

\* l.81-93: the emoji.
emoji_for_status(code) ==
    IF code.kind = "int" /\ 200 <= code.code /\ code.code < 300
    THEN "GREEN_SQUARE"
    ELSE IF code.kind = "int" /\ 300 <= code.code /\ code.code < 400
    THEN "YELLOW_SQUARE"
    ELSE IF code.kind = "int" /\ 400 <= code.code /\ code.code < 600
    THEN "RED_SQUARE"
    ELSE "BLACK_CIRCLE"

\* l.151: the line printed for a yielded future.
PrintedLine(row, code) ==
    [emoji |-> emoji_for_status(code), URL |-> row.URL,
     colored |-> color_for_status(code)]

----------------------------------------------------------------------------
(* The executor, l.140-141 *)

NewTask ==
    [st |-> "new", head |-> NoResp, get |-> NoResp,
     heads |-> 0, gets |-> 0, value |-> NoValue]

InFlight == { i \in Tasks : task[i].st \in {"head", "get"} }
Queued   == { i \in Tasks : task[i].st = "queued" }
Finished == { i \in Tasks : task[i].st = "finished" }

\* A worker thread takes a work item when it runs none.
WorkerFree == Cardinality(InFlight) < threads

\* Variant of the pool with an off-by-one ceiling.
ThreadsAfterSubmit_offByOne ==
    IF threads <= MAX_WORKERS
       /\ threads - Cardinality(InFlight) <= Cardinality(Queued)
    THEN threads + 1
    ELSE threads

\* submit starts a thread when no idle one is left for the new item and the
\* pool is not full.
ThreadsAfterSubmit ==
    IF threads < MAX_WORKERS
       /\ threads - Cardinality(InFlight) <= Cardinality(Queued)
    THEN threads + 1
    ELSE threads

----------------------------------------------------------------------------
(* check_urls, l.135-166 *)

InitWith(inputs, transports) ==
    /\ records \in inputs
    /\ transport \in transports
    /\ pc = "submit"
    /\ submitted = 0
    /\ threads = 0
    /\ task = [i \in 1..Len(records) |-> NewTask]
    /\ unyielded = <<>>
    /\ early = {}
    /\ waiter = <<>>
    /\ results = <<>>
    /\ yielded = <<>>
    /\ written = <<>>
    /\ run = 1
    /\ first = <<>>
    /\ printed = <<>>
    /\ infile = [header |-> Columns, rows |-> records]

Init ==
    \/ InitWith(SeqsUpTo(BatchPool, MaxRecords),
                {AnyTransport(BatchHeadResponses, BatchGetResponses)})
    \/ InitWith(SeqsUpTo(RecordPool, MaxProbeRecords),
                {AnyTransport(ProbeResponses, ProbeResponses)})

\* l.141: executor.submit(fetch_status, r["URL"]) for the next row.
Submit ==
    /\ pc = "submit"
    /\ submitted < N
    /\ submitted' = submitted + 1
    /\ task' = [task EXCEPT ![submitted + 1].st = "queued"]
    /\ threads' = ThreadsAfterSubmit
    /\ UNCHANGED <<records, transport, pc, unyielded, early, waiter,
                   results, yielded, written, run, first,
                   printed, infile>>

\* A worker takes the oldest queued item and fetch_status sends HEAD (l.59).
Start(i) ==
    /\ task[i].st = "queued"
    /\ \A j \in Queued : i <= j
    /\ WorkerFree
    /\ task' = [task EXCEPT ![i].st = "head", ![i].heads = @ + 1]
    /\ UNCHANGED <<records, transport, pc, submitted, threads, unyielded,
                   early, waiter, results, yielded, written, run, first,
                   printed, infile>>

\* Variant in which a finishing future does not wake as_completed.
FinishFuture_unnotified(i) ==
    /\ unyielded' = Append(unyielded, i)
    /\ waiter' = waiter

\* The future of task i finishes: as_completed's waiter, once installed,
\* records it.
FinishFuture(i) ==
    /\ unyielded' = Append(unyielded, i)
    /\ waiter' = IF pc = "collect" THEN Append(waiter, i) ELSE waiter

\* Variant of l.59 with the requests of all tasks behind one lock taken in
\* submission order: a HEAD ends only after every earlier probe has.
HeadReturns_serial(i) ==
    /\ task[i].st = "head"
    /\ \A j \in Tasks : j < i => task[j].st = "finished"
    /\ \E resp \in transport[records[i].URL].HEAD :
          LET nxt == AfterHead(resp) IN
          /\ task' = [task EXCEPT ![i].st = nxt.st,
                                  ![i].head = resp,
                                  ![i].gets = IF nxt.st = "get" THEN @ + 1 ELSE @,
                                  ![i].value = nxt.value]
          /\ IF nxt.st = "finished"
             THEN FinishFuture(i)
             ELSE UNCHANGED <<unyielded, waiter>>
    /\ UNCHANGED <<records, transport, pc, submitted, threads, early,
                   results, yielded, written, run, first,
                   printed, infile>>

\* The HEAD request of task i ends (l.59-64).
HeadReturns(i) ==
    /\ task[i].st = "head"
    /\ \E resp \in transport[records[i].URL].HEAD :
          LET nxt == AfterHead(resp) IN
          /\ task' = [task EXCEPT ![i].st = nxt.st,
                                  ![i].head = resp,
                                  ![i].gets = IF nxt.st = "get" THEN @ + 1 ELSE @,
                                  ![i].value = nxt.value]
          /\ IF nxt.st = "finished"
             THEN FinishFuture(i)
             ELSE UNCHANGED <<unyielded, waiter>>
    /\ UNCHANGED <<records, transport, pc, submitted, threads, early,
                   results, yielded, written, run, first,
                   printed, infile>>

\* The GET request of task i ends (l.61-64).
GetReturns(i) ==
    /\ task[i].st = "get"
    /\ \E resp \in transport[records[i].URL].GET :
          LET nxt == AfterGet(resp) IN
          /\ task' = [task EXCEPT ![i].st = nxt.st,
                                  ![i].get = resp,
                                  ![i].gets = IF nxt.st = "get" THEN @ + 1 ELSE @,
                                  ![i].value = nxt.value]
          /\ IF nxt.st = "finished"
             THEN FinishFuture(i)
             ELSE UNCHANGED <<unyielded, waiter>>
    /\ UNCHANGED <<records, transport, pc, submitted, threads, early,
                   results, yielded, written, run, first,
                   printed, infile>>

\* l.144: as_completed(future_map) is entered once every row is submitted; it
\* takes the set of the futures that have finished already.
AsCompleted ==
    /\ pc = "submit"
    /\ submitted = N
    /\ pc' = "collect"
    /\ early' = Finished
    /\ UNCHANGED <<records, transport, submitted, threads, task, unyielded,
                   waiter, results, yielded, written, run, first,
                   printed, infile>>

\* Variant of l.146-149 without the try/except around fut.result().
ResultCode_uncaught(value) == value

\* l.146-149: the ResponseCode of a yielded future.
ResultCode(value) ==
    IF value.kind = "raised" THEN ERROR ELSE value

\* Variant of l.153-158 with the two tags exchanged.
ResultRecord_swapped(row, code) ==
    [URL |-> row.URL, Langs |-> row.Status,
     ResponseCode |-> code, Status |-> row.Langs]

\* l.153-158: the row appended for record `row` and ResponseCode `code`.
ResultRecord(row, code) ==
    [URL |-> row.URL, Langs |-> row.Langs,
     ResponseCode |-> code, Status |-> row.Status]

\* What is left of the set as_completed took at its start.
Snapshot == early \ Range(yielded)

\* Variant of as_completed that hands out the waiter's newest future first.
NextYield_newestFirst ==
    IF Snapshot # {} THEN Snapshot
    ELSE IF waiter # <<>> THEN {waiter[Len(waiter)]}
    ELSE {}

\* The futures as_completed can yield next: any of the set taken at its
\* start (a set has no order), and after those the waiter's oldest.
NextYield ==
    IF Snapshot # {} THEN Snapshot
    ELSE IF waiter # <<>> THEN {Head(waiter)}
    ELSE {}

\* Variant of l.145 that pairs by position: the k-th yielded future with
\* the k-th row.
RowOf_byPosition(i) == records[Len(yielded) + 1]

\* Variant of l.141 with future_map keyed by the URL: of the rows with one
\* URL the dict keeps the last.
RowOf_byUrl(i) ==
    records[CHOOSE j \in Tasks :
                /\ records[j].URL = records[i].URL
                /\ \A m \in Tasks : records[m].URL = records[i].URL => m <= j]

\* l.145: row = future_map[fut], the row the yielded future was submitted for.
RowOf(i) == records[i]

\* Variant of l.153 with the append of a thread that read the length of the
\* list before another thread's append: it writes over the last record.
AppendResult_overwrite(rec) ==
    IF results = <<>>
    THEN <<rec>>
    ELSE [results EXCEPT ![Len(results)] = rec]

\* l.153: results.append(...), called by the thread that runs the loop of
\* l.144 and by no worker thread.
AppendResult(rec) == Append(results, rec)

\* One iteration of the loop at l.144-158.
Collect(i) ==
    /\ pc = "collect"
    /\ i \in NextYield
    /\ printed' = Append(printed, PrintedLine(RowOf(i), ResultCode(task[i].value)))
    /\ results' = AppendResult(ResultRecord(RowOf(i), ResultCode(task[i].value)))
    /\ yielded' = Append(yielded, i)
    /\ waiter' = SelectSeq(waiter, LAMBDA j : j # i)
    /\ unyielded' = SelectSeq(unyielded, LAMBDA j : j # i)
    /\ UNCHANGED <<records, transport, pc, submitted, threads, task,
                   early, written, run, first, infile>>

\* Variant of the loop that stops one future short.
LoopDone_early == Len(yielded) >= N - 1

\* as_completed is exhausted when it has yielded every future.
LoopDone == Len(yielded) = N

\* The with block ends (l.140-158): the loop is over and
\* executor.shutdown(wait=True) has joined the workers.
ExitPool ==
    /\ pc = "collect"
    /\ LoopDone
    /\ InFlight = {} /\ Queued = {}
    /\ pc' = "write"
    /\ UNCHANGED <<records, transport, submitted, threads, task, unyielded,
                   early, waiter, results, yielded, written, run, first,
                   printed, infile>>

\* l.161-164: the output file is written.
Write ==
    /\ pc = "write"
    /\ written' = Append(written, results)
    /\ pc' = "done"
    /\ UNCHANGED <<records, transport, submitted, threads, task, unyielded,
                   early, waiter, results, yielded, run, first,
                   printed, infile>>

Next ==
    \/ Submit
    \/ \E i \in Tasks : Start(i)
    \/ \E i \in Tasks : HeadReturns(i)
    \/ \E i \in Tasks : GetReturns(i)
    \/ AsCompleted
    \/ \E i \in Tasks : Collect(i)
    \/ ExitPool
    \/ Write

Spec == Init /\ [][Next]_vars

\* Threads are scheduled and every request ends: a step that stays possible is
\* eventually taken.
FairSpec == Spec /\ WF_vars(Next)

----------------------------------------------------------------------------
(* Two runs of check_urls on one input against a transport whose answers
   are fixed *)

StaticInit == InitWith(SeqsUpTo(StaticPool, MaxStaticRecords), StaticTransports)

\* l.184: check_urls is called again on the same input; the rows the first
\* run wrote are kept for comparison.
Rerun ==
    /\ pc = "done"
    /\ run = 1
    /\ run' = 2
    /\ first' = written[1]
    /\ pc' = "submit"
    /\ submitted' = 0
    /\ threads' = 0
    /\ task' = [i \in Tasks |-> NewTask]
    /\ unyielded' = <<>>
    /\ early' = {}
    /\ waiter' = <<>>
    /\ results' = <<>>
    /\ yielded' = <<>>
    /\ written' = <<>>
    /\ printed' = <<>>
    /\ UNCHANGED <<records, transport, infile>>

NextTwice == Next \/ Rerun

SpecTwice == StaticInit /\ [][NextTwice]_vars

----------------------------------------------------------------------------
(* check_urls from the raw rows of the input file *)

\* The transport of the runs that start from a raw file.
ReadTransport ==
    AnyTransport(ResponsesOver(BatchCodes, {}), ResponsesOver({200}, {}))

\* Before l.114: nothing is read yet.
ReadInit ==
    /\ infile \in RawFiles
    /\ records = <<>>
    /\ transport = ReadTransport
    /\ pc = "read"
    /\ submitted = 0
    /\ threads = 0
    /\ task = <<>>
    /\ unyielded = <<>>
    /\ early = {}
    /\ waiter = <<>>
    /\ results = <<>>
    /\ yielded = <<>>
    /\ written = <<>>
    /\ run = 1
    /\ first = <<>>
    /\ printed = <<>>

\* l.114-133: the file is read into `rows`; an exception raised by getcol
\* leaves check_urls and ends the program.
ReadRows ==
    /\ pc = "read"
    /\ LET r == ReadFrom(infile, 1, <<>>) IN
          /\ records' = r.rows
          /\ task' = [i \in 1..Len(r.rows) |-> NewTask]
          /\ pc' = IF r.raised THEN "crashed" ELSE "submit"
    /\ UNCHANGED <<transport, submitted, threads, unyielded, early, waiter,
                   results, yielded, written, run, first, printed, infile>>

NextRead == ReadRows \/ Next

SpecRead == ReadInit /\ [][NextRead]_vars

----------------------------------------------------------------------------
(* One row whose probe may end with any outcome, for the display functions *)

\* The status codes the display functions are applied to.
DisplayCodes == 100..699

\* The target answers HEAD with 404 and the GET with any code or a failure,
\* so that every outcome of fetch_status reaches l.151.
DisplayInit ==
    InitWith({<<r>> : r \in StaticPool},
             {AnyTransport({StatusResp(404)},
                           ResponsesOver(DisplayCodes, {"RequestException"}))})

SpecDisplay == DisplayInit /\ [][Next]_vars

----------------------------------------------------------------------------
(* Properties *)

\* The dispatch has returned: the main thread has left the with block.
DispatchReturned == pc \in {"write", "done"}

Triple(r) == <<r.URL, r.Langs, r.Status>>

TriplesOf(s) == [k \in DOMAIN s |-> Triple(s[k])]

\* The places of task i in the order of yielding.
PlacesOf(i) == { k \in DOMAIN yielded : yielded[k] = i }

\* C1: once the dispatch has returned, `results` holds exactly one record per
\* input row and the multiset of its (URL, Langs, Status) triples is that of
\* the input, whatever the order of completion and whichever probes failed.
C1_Bijection ==
    DispatchReturned =>
        /\ Len(results) = N
        /\ BagOfSeq(TriplesOf(results)) = BagOfSeq(TriplesOf(records))

\* An input of three rows, the first and the third equal, one task raised,
\* and the last row's record came out first.
C1_Witness ==
    /\ pc = "done"
    /\ N = 3
    /\ records[1] = records[3]
    /\ records[1] # records[2]
    /\ \E i \in Tasks : task[i].value = RAISED
    /\ yielded[1] = 3

\* C2: at most MAX_WORKERS probes are started and not finished (in the HEAD or
\* in the GET stage) at any time.
C2_Ceiling == Cardinality(InFlight) <= MAX_WORKERS

\* The ceiling binds: MAX_WORKERS probes run, one of them in its GET stage,
\* and a submitted task waits.
C2_Witness ==
    /\ Cardinality(InFlight) = MAX_WORKERS
    /\ Queued # {}
    /\ \E i \in InFlight : task[i].st = "get"

\* C3: the dispatch returns, and the writer gets `results`, only when every
\* task has finished and its record is in `results`; the writer is called at
\* most once, with the whole list.
C3_Barrier ==
    /\ DispatchReturned =>
          \A i \in Tasks : task[i].st = "finished" /\ Cardinality(PlacesOf(i)) = 1
    /\ Len(written) <= 1
    /\ pc = "done" => Len(written) = 1
    /\ \A w \in DOMAIN written : written[w] = results /\ Len(written[w]) = N

\* Three rows written, one of which finished only after the main thread had
\* begun to wait in as_completed.
C3_Witness ==
    /\ pc = "done"
    /\ Len(written) = 1
    /\ N = 3
    /\ early # Tasks

\* C4: a probe whose HEAD returned a status below 400 has finished with
\* exactly that status and has issued no GET; its record carries that status.
C4_HeadBelow400 ==
    \A i \in Tasks :
        (task[i].head.kind = "status" /\ task[i].head.code < 400) =>
            /\ task[i].st = "finished"
            /\ task[i].gets = 0
            /\ task[i].get = NoResp
            /\ task[i].value = IntCode(task[i].head.code)
            /\ \A k \in PlacesOf(i) :
                  results[k].ResponseCode = IntCode(task[i].head.code)

\* HEAD returned 399 and the record with 399 is in `results`.
C4_Witness ==
    \E i \in Tasks :
        /\ task[i].head = StatusResp(399)
        /\ \E k \in PlacesOf(i) : results[k].ResponseCode = IntCode(399)

\* C5: a probe whose HEAD returned a status of 400 or more has issued exactly
\* one GET, and once the GET has returned a status the probe's result is
\* that status.
C5_HeadAtLeast400 ==
    \A i \in Tasks :
        (task[i].head.kind = "status" /\ task[i].head.code >= 400) =>
            /\ task[i].gets = 1
            /\ task[i].st \in {"get", "finished"}
            /\ task[i].st = "get" => task[i].value = NoValue
            /\ (task[i].st = "finished" /\ task[i].get.kind = "status") =>
                  /\ task[i].value = IntCode(task[i].get.code)
                  /\ \A k \in PlacesOf(i) :
                        results[k].ResponseCode = IntCode(task[i].get.code)

\* HEAD returned 400, GET returned 599, and the record carries 599.
C5_Witness ==
    \E i \in Tasks :
        /\ task[i].head = StatusResp(400)
        /\ task[i].get = StatusResp(599)
        /\ \E k \in PlacesOf(i) : results[k].ResponseCode = IntCode(599)

\* C6: a probe whose HEAD or GET raised a RequestException has finished
\* with the value "ERROR" (it raised nothing), and its record carries ERROR.
C6_TransportFailure ==
    \A i \in Tasks :
        (task[i].head.kind = "RequestException"
            \/ task[i].get.kind = "RequestException") =>
            /\ task[i].st = "finished"
            /\ task[i].value = ERROR
            /\ \A k \in PlacesOf(i) : results[k].ResponseCode = ERROR

\* HEAD returned 400, the GET raised, and the record carries ERROR.
C6_Witness ==
    \E i \in Tasks :
        /\ task[i].head = StatusResp(400)
        /\ task[i].get = RaiseResp("RequestException")
        /\ \E k \in PlacesOf(i) : results[k].ResponseCode = ERROR

\* C7: every record in `results` carries the tags of its own row and the
\* outcome of its own task: ERROR when the task raised, else the value the
\* task returned; a task that raised counts as finished.
C7_TaskException ==
    /\ \A i \in Tasks : task[i].value = RAISED => task[i].st = "finished"
    /\ \A k \in DOMAIN yielded :
          LET i == yielded[k] IN
          /\ Triple(results[k]) = Triple(records[i])
          /\ results[k].ResponseCode.kind \in {"int", "ERROR"}
          /\ task[i].value = RAISED => results[k].ResponseCode = ERROR
          /\ task[i].value # RAISED => results[k].ResponseCode = task[i].value

\* A finished batch in which one task raised and another returned 200, each
\* with its own record.
C7_Witness ==
    /\ pc = "done"
    /\ \E k1, k2 \in DOMAIN yielded :
          /\ task[yielded[k1]].value = RAISED
          /\ results[k1].ResponseCode = ERROR
          /\ task[yielded[k2]].value = IntCode(200)
          /\ results[k2].ResponseCode = IntCode(200)

\* The run is over with a complete output: every task finished and one
\* record per row written.
Complete ==
    /\ pc = "done"
    /\ \A i \in Tasks : task[i].st = "finished"
    /\ Len(written) = 1
    /\ Len(written[1]) = N

\* C8: when every request ends and every thread keeps running, the dispatch
\* of any finite input ends with a complete output, and before the end there
\* is always a step to take.
C8_Terminates ==
    /\ [](pc # "done" => ENABLED Next)
    /\ <>Complete

\* A complete run of an input longer than the pool is wide, so that a task
\* had to wait for a worker.
C8_Witness ==
    /\ Complete
    /\ N > MAX_WORKERS

\* The future yielded by a step that yields one.
JustYielded == yielded'[Len(yielded')]

\* C9 as stated: the order of `results` is the order of completion, that is,
\* every record appended is that of the oldest finished task not yet in
\* `results`.
C9_CompletionOrder ==
    [][Len(yielded') = Len(yielded) + 1 => JustYielded = Head(unyielded)]_vars

\* C9, amended: the records of the tasks that finished before as_completed
\* was called come first, in any order; the records of the tasks that
\* finished afterwards follow, in the order of completion.
C9_OrderAfterStart ==
    [][Len(yielded') = Len(yielded) + 1 =>
          \/ JustYielded \in early
          \/ /\ early \subseteq Range(yielded)
             /\ JustYielded = Head(unyielded)]_vars

\* Task 1 finished before as_completed was called; tasks 3 and 2 finished
\* afterwards, in that order, and their records follow in that order.
C9_Witness ==
    /\ pc = "done"
    /\ early = {1}
    /\ yielded = <<1, 3, 2>>

\* C10: a second run on the same input against a transport that answers as
\* in the first run writes the same multiset of records.
C10_SameResultSet ==
    (run = 2 /\ pc = "done") => BagOfSeq(written[1]) = BagOfSeq(first)

\* Two runs of a two-row input with different outcomes per row, whose
\* records came out in different orders.
C10_Witness ==
    /\ run = 2
    /\ pc = "done"
    /\ N = 2
    /\ written[1] # first
    /\ first[1].ResponseCode # first[2].ResponseCode

(* C11 *)

\* C11: every probe issues one HEAD request and then at most one GET request:
\* a task that has not started has issued nothing, a started task has issued
\* its HEAD exactly once, no task has issued more than one GET, and a GET was
\* issued only after the HEAD had returned (with a status).
C11_AtMostTwoRequests ==
    \A i \in Tasks :
        /\ task[i].heads = (IF task[i].st \in {"new", "queued"} THEN 0 ELSE 1)
        /\ task[i].gets \in {0, 1}
        /\ task[i].st = "head" => task[i].gets = 0 /\ task[i].head = NoResp
        /\ task[i].gets = 1 => task[i].head.kind = "status"
        /\ task[i].st = "get" => task[i].gets = 1 /\ task[i].get = NoResp
        /\ task[i].get # NoResp => task[i].gets = 1 /\ task[i].st = "finished"

\* A probe whose GET failed is finished after its two requests.
C11_Witness ==
    \E i \in Tasks :
        /\ task[i].st = "finished"
        /\ task[i].heads = 1
        /\ task[i].gets = 1
        /\ task[i].get = RaiseResp("RequestException")

(* C12 *)

\* The answers of a target that rejects or does not support HEAD: the status
\* 405 Method Not Allowed, or the connection closed on the HEAD request, which
\* requests.head raises as ConnectionError, a RequestException.
HeadBlocked(resp) ==
    resp = StatusResp(405) \/ resp = RaiseResp("RequestException")

\* C12: when the target rejects or does not support HEAD, the probe issues
\* the GET request and returns the status the GET returned, as it does for a
\* HEAD status of 400 or more.
C12_HeadBlockedFallsBack ==
    \A i \in Tasks :
        HeadBlocked(task[i].head) =>
            /\ task[i].gets = 1
            /\ (task[i].st = "finished" /\ task[i].get.kind = "status")
                   => task[i].value = IntCode(task[i].get.code)

(* C13 *)

\* C13: when the HEAD request times out or raises another transport
\* exception, the probe does not escalate: it issues no GET request and its
\* outcome is ERROR, also in the record the dispatcher appends for it.
C13_NoGetAfterHeadFailure ==
    \A i \in Tasks :
        task[i].head = RaiseResp("RequestException") =>
            /\ task[i].st = "finished"
            /\ task[i].gets = 0
            /\ task[i].get = NoResp
            /\ task[i].value = ERROR
            /\ \A k \in PlacesOf(i) : results[k].ResponseCode = ERROR

\* A probe whose HEAD failed has been collected without a GET.
C13_Witness ==
    \E i \in Tasks :
        /\ task[i].head = RaiseResp("RequestException")
        /\ task[i].gets = 0
        /\ PlacesOf(i) # {}
        /\ \A k \in PlacesOf(i) : results[k].ResponseCode = ERROR

(* C14 *)

\* C14: one probe task per input record, duplicates of a URL included: no
\* record's HEAD is issued twice, every record collected so far is the pair
\* of its own row's URL, Langs and Status with the outcome of the probe that
\* was started for that row, and once dispatch has returned every row has had
\* its own probe and has exactly one record.
C14_OneProbePerRecord ==
    /\ \A i \in Tasks : task[i].heads <= 1
    /\ \A k \in DOMAIN results :
           /\ task[yielded[k]].heads = 1
           /\ results[k] = ResultRecord(records[yielded[k]],
                                        ResultCode(task[yielded[k]].value))
    /\ DispatchReturned =>
           \A i \in Tasks : task[i].heads = 1 /\ Cardinality(PlacesOf(i)) = 1

\* Two rows with one URL and different tags were probed separately, got
\* different outcomes, and each record carries its own row's tags and outcome.
C14_Witness ==
    /\ pc = "done"
    /\ \E i, j \in Tasks :
          /\ i # j
          /\ records[i].URL = records[j].URL
          /\ records[i].Langs # records[j].Langs
          /\ task[i].heads = 1 /\ task[j].heads = 1
          /\ task[i].value = IntCode(200)
          /\ task[j].value = RAISED
          /\ \E k \in PlacesOf(i) :
                results[k] = ResultRecord(records[i], IntCode(200))
          /\ \E k \in PlacesOf(j) :
                results[k] = ResultRecord(records[j], ERROR)

(* C15 *)

\* C15: appends to the result collection never race and none is lost or
\* overwritten: the collection is as long as the number of completions
\* collected so far, and it changes only by one record added at its end in a
\* step of the collecting loop during which no probe task moves.
C15_AppendsNeverRace ==
    /\ [](Len(results) = Len(yielded))
    /\ [][results' # results =>
             /\ pc = "collect"
             /\ task' = task
             /\ Len(results') = Len(results) + 1
             /\ SubSeq(results', 1, Len(results)) = results]_vars

\* A second record was appended while another probe was still in flight.
C15_Witness ==
    /\ Len(results) = 2
    /\ InFlight # {}

(* C16 *)

\* The probes that have been started.
Started == {i \in Tasks : task[i].st \notin {"new", "queued"}}

\* C16: a probe waits only for its own requests: in every state a probe whose
\* HEAD or GET is outstanding can take the step that ends it, whatever stage
\* the other probes are in; and whenever fewer than MAX_WORKERS probes are in
\* flight and some record's probe has not started, one more probe is
\* eventually started. The set of started probes only grows and the number
\* in flight rises only when a probe starts, so the last part says that the
\* run does not stay forever below MAX_WORKERS in flight with a probe left to
\* start.
C16_ProbesIndependent ==
    /\ [](\A i \in Tasks :
             /\ task[i].st = "head" => ENABLED HeadReturns(i)
             /\ task[i].st = "get" => ENABLED GetReturns(i))
    /\ [][/\ Started \subseteq Started'
          /\ Cardinality(InFlight') > Cardinality(InFlight)
                 => Started' # Started]_vars
    /\ []<>(Started = Tasks \/ Cardinality(InFlight) >= MAX_WORKERS)

\* A probe has finished and been collected while an earlier one is still
\* waiting for its HEAD and a third has not started.
C16_Witness ==
    \E i, j, m \in Tasks :
        /\ i < j
        /\ task[i].st = "head"
        /\ task[j].st = "finished" /\ PlacesOf(j) # {}
        /\ task[m].st = "queued"

(* C17 and C19 *)

\* The display categories: an emoji of l.81-93 with a colour of l.67-78.
Success  == [emoji |-> "GREEN_SQUARE", color |-> "GREEN"]
Redirect == [emoji |-> "YELLOW_SQUARE", color |-> "YELLOW"]
Failure  == [emoji |-> "RED_SQUARE", color |-> "RED"]
Unknown  == [emoji |-> "BLACK_CIRCLE", color |-> "LIGHTBLACK_EX"]

\* The category a printed line shows.
CategoryOf(line) == [emoji |-> line.emoji, color |-> line.colored.color]

\* The outcome is an integer code from lo to hi.
CodeIn(code, lo, hi) == code.kind = "int" /\ lo <= code.code /\ code.code <= hi

\* C17 as stated: the classification maps the codes 200-299 to the success
\* category, 300-399 to the redirect category, and 400-599 together with the
\* ERROR marker to the error category.
C17_ErrorWithFailures ==
    \A k \in DOMAIN printed :
        LET code == results[k].ResponseCode
            cat  == CategoryOf(printed[k]) IN
        /\ CodeIn(code, 200, 299) => cat = Success
        /\ CodeIn(code, 300, 399) => cat = Redirect
        /\ (CodeIn(code, 400, 599) \/ code = ERROR) => cat = Failure

\* C17, amended: the classification is a function of the outcome alone with
\* four categories: 200-299 success, 300-399 redirect, 400-599 error, and a
\* fourth category for the ERROR marker and any other integer.
C17_FourCategories ==
    \A k \in DOMAIN printed :
        LET code == results[k].ResponseCode
            cat  == CategoryOf(printed[k]) IN
        cat = (IF CodeIn(code, 200, 299) THEN Success
               ELSE IF CodeIn(code, 300, 399) THEN Redirect
               ELSE IF CodeIn(code, 400, 599) THEN Failure
               ELSE Unknown)

\* The ERROR marker has been printed in the fourth category.
C17_Witness ==
    \E k \in DOMAIN printed :
        /\ results[k].ResponseCode = ERROR
        /\ CategoryOf(printed[k]) = Unknown

(* C19 *)

\* C19: color_for_status and emoji_for_status put every outcome in the same
\* category as each other, and an integer code outside 200-599 is printed
\* exactly as the ERROR marker is, in the ERROR/unknown category, while the
\* record appended for it keeps the integer.
C19_DisplayAgrees ==
    \A k \in DOMAIN printed :
        LET code == results[k].ResponseCode
            row  == records[yielded[k]] IN
        /\ CategoryOf(printed[k]) \in {Success, Redirect, Failure, Unknown}
        /\ (code.kind = "int" /\ ~CodeIn(code, 200, 599)) =>
               /\ printed[k] = PrintedLine(row, ERROR)
               /\ CategoryOf(printed[k]) = Unknown
               /\ results[k] = ResultRecord(row, code)

\* The code 600 was printed as ERROR and recorded as 600.
C19_Witness ==
    \E k \in DOMAIN printed :
        /\ printed[k].emoji = "BLACK_CIRCLE"
        /\ printed[k].colored = [color |-> "LIGHTBLACK_EX", text |-> ERROR]
        /\ results[k].ResponseCode = IntCode(600)

(* C18 *)

\* A field of a row with a missing field read as the empty string.
OrEmpty(cell) == IF cell = None THEN "" ELSE Strip(cell)

\* The rows of the input whose URL is not empty after trimming, with the
\* Langs and Status they are to be dispatched with.
RECURSIVE KeptFrom(_)
KeptFrom(rows) ==
    IF rows = <<>>
    THEN <<>>
    ELSE LET r == Head(rows) IN
         (IF Strip(r.URL) = ""
          THEN <<>>
          ELSE << <<Strip(r.URL), OrEmpty(r.Langs), OrEmpty(r.Status)>> >>)
         \o KeptFrom(Tail(rows))

\* C18: the rows whose URL is empty after trimming are filtered out before
\* dispatch, and every row with a non-empty URL is dispatched exactly once,
\* a missing Langs or Status read as the empty string: no more probes are
\* started and no more records collected than rows with a URL, the rows
\* handed to the dispatcher are the rows with a URL, and when the program has
\* ended there is one record for each of them.
C18_RowsWithUrlDispatched ==
    LET kept == KeptFrom(infile.rows) IN
    /\ Cardinality({i \in Tasks : task[i].heads > 0}) <= Len(kept)
    /\ Len(results) <= Len(kept)
    /\ pc \notin {"read", "crashed"} => TriplesOf(records) = kept
    /\ pc \in {"done", "crashed"} =>
           BagOfSeq(TriplesOf(results)) = BagOfSeq(kept)

====
